---- MODULE Spec2Model ----
(***************************************************************************)
(* TransferModal of the DHIS2 TEI transfer plugin as a state machine.      *)
(*                                                                         *)
(* The variables are the component's useState cells, the requests its      *)
(* effects and handleTransfer have in flight, and the calls the data       *)
(* engine has received.  One action is one event of the single-threaded    *)
(* event loop: an operator input, a timer, or the completion of a remote   *)
(* call, together with the render and the effects React runs for it.       *)
(*                                                                         *)
(* A JavaScript string is a sequence of one-character strings, so that     *)
(* trim, toLowerCase and includes are computed.  null and undefined are    *)
(* the value Null.                                                         *)
(***************************************************************************)
EXTENDS Naturals, Sequences, FiniteSets

\* ------------------------------------------------------------------ bounds

\* handleTransfer activations that can be in flight at once
MaxAttempts == 2
\* requests one lookup effect can have in flight, stale ones included
MaxPending == 2
\* runs of the search effect (settled query changes) in one session
MaxSettles == 3

\* ----------------------------------------------------------------- strings

Null == <<"null">>

Truthy(s) == s # Null /\ s # <<>>

RECURSIVE TrimStart(_)
TrimStart(s) ==
    IF s # <<>> /\ Head(s) = " " THEN TrimStart(Tail(s)) ELSE s

RECURSIVE TrimEnd(_)
TrimEnd(s) ==
    IF s # <<>> /\ s[Len(s)] = " " THEN TrimEnd(SubSeq(s, 1, Len(s) - 1)) ELSE s

Trim(s) == TrimEnd(TrimStart(s))

LowerChar(ch) ==
    CASE ch = "U" -> "u"
      [] ch = "P" -> "p"
      [] ch = "E" -> "e"
      [] ch = "I" -> "i"
      [] ch = "C" -> "c"
      [] ch = "T" -> "t"
      [] ch = "A" -> "a"
      [] ch = "B" -> "b"
      [] OTHER -> ch

ToLowerCase(s) == [i \in 1..Len(s) |-> LowerChar(s[i])]

Includes(s, sub) ==
    \E i \in 0..Len(s) :
        /\ i + Len(sub) <= Len(s)
        /\ SubSeq(s, i + 1, i + Len(sub)) = sub

\* ------------------------------------------------------- program constants

UPDATE_ENROLLMENT_ORGUNIT == FALSE
MIN_SEARCH_LENGTH == 2

KW_trackedEntity == <<"t","r","a","c","k","e","d","E","n","t","i","t","y">>
KW_trackedEntityInstance ==
    <<"t","r","a","c","k","e","d","E","n","t","i","t","y","I","n","s","t","a","n","c","e">>
KW_unknownParameter ==
    <<"u","n","k","n","o","w","n"," ","p","a","r","a","m","e","t","e","r">>
KW_parameter == <<"p","a","r","a","m","e","t","e","r">>

MSG_TransferFailed ==
    <<"T","r","a","n","s","f","e","r"," ","f","a","i","l","e","d",".">>
MSG_TransferCompleted ==
    <<"T","r","a","n","s","f","e","r"," ","c","o","m","p","l","e","t","e","d",".">>
MSG_SearchFailed ==
    <<"F","a","i","l","e","d"," ","t","o"," ","s","e","a","r","c","h"," ","o","r","g"," ","u","n","i","t","s",".">>
MSG_TreeFailed ==
    <<"F","a","i","l","e","d"," ","t","o"," ","r","e","n","d","e","r"," ","o","r","g"," ","u","n","i","t"," ","t","r","e","e",".">> \o
    <<" ","U","s","e"," ","m","a","n","u","a","l"," ","e","n","t","r","y"," ","i","n","s","t","e","a","d",".">>

\* ------------------------------------------------- the remote side's values

\* messages a server or the transport can put in an error
M_UnknownParam ==
    <<"U","n","k","n","o","w","n"," ","p","a","r","a","m","e","t","e","r"," ",
      "t","r","a","c","k","e","d","E","n","t","i","t","y">>
M_ParamNamed ==
    <<"P","a","r","a","m","e","t","e","r"," ",
      "t","r","a","c","k","e","d","E","n","t","i","t","y"," ","b","a","d">>
M_Conflict == <<"C","o","n","f","l","i","c","t">>

\* The errors a remote call is rejected with.  isObject FALSE is a rejection
\* with a non-object; status 0 is a response without status; message and
\* responseMessage Null are absent fields.
Errors ==
    << [isObject |-> FALSE, status |-> 0,   message |-> Null,           responseMessage |-> Null],
       [isObject |-> TRUE,  status |-> 0,   message |-> M_UnknownParam, responseMessage |-> Null],
       [isObject |-> TRUE,  status |-> 400, message |-> M_Conflict,     responseMessage |-> M_UnknownParam],
       [isObject |-> TRUE,  status |-> 499, message |-> M_ParamNamed,   responseMessage |-> <<>>],
       [isObject |-> TRUE,  status |-> 400, message |-> M_UnknownParam, responseMessage |-> M_Conflict],
       [isObject |-> TRUE,  status |-> 400, message |-> <<>>,           responseMessage |-> Null],
       [isObject |-> TRUE,  status |-> 500, message |-> M_UnknownParam, responseMessage |-> Null] >>

\* The errors of Errors that are 4xx responses whose message, as shown to
\* the operator, names an unknown parameter: the third by its response
\* message, the fourth by its own message.
UnknownParameter4xx == {3, 4}

ErrorIds == 1..Len(Errors)
\* outcome of a remote call: 0 resolves it, an ErrorIds value rejects it
Outcomes == {0} \cup ErrorIds
\* the outcomes a display lookup is answered with
LookupOutcomes == {0, 1, 3}

ID_T == <<"T">>
ID_P == <<"P">>
ID_Q == <<"Q">>
ID_A == <<"A">>
ID_B == <<"B">>

OrgUnitIds == {ID_A, ID_B}

PathOf(id) == <<"/">> \o id

NullOu == [id |-> Null, displayName |-> Null]

\* what organisationUnits/{id} answers for a known id
OrgUnitOf(id) ==
    [id |-> id, displayName |-> IF id = ID_A THEN <<"a","b">> ELSE <<"b","c">>]

Event(e, st) ==
    [event |-> e, program |-> ID_P, programStage |-> <<"S">>,
     orgUnit |-> ID_A, status |-> st, occurredAt |-> <<"1">>, scheduledAt |-> Null]

Enrollment(e, prog, evs) ==
    [enrollment |-> e, program |-> prog, orgUnit |-> ID_A, events |-> evs]

EV1 == Event(<<"1">>, <<"D">>)
EV2 == Event(<<"2">>, <<"O">>)
EV3 == Event(<<"3">>, <<"D">>)
EN_P == <<"p">>
EN_Q == <<"q">>

\* an absent array field (enrollments, events, organisationUnits)
Absent == <<[absent |-> TRUE]>>

\* The tracked entities the re-fetch can answer with.
NoEvents == Absent
NoEnrollments == Absent
TrackedEntities ==
    { [trackedEntity |-> ID_T, enrollments |-> NoEnrollments],
      [trackedEntity |-> ID_T, enrollments |-> <<>>],
      [trackedEntity |-> Null, enrollments |-> <<Enrollment(EN_P, ID_P, NoEvents)>>],
      [trackedEntity |-> ID_T, enrollments |-> <<Enrollment(EN_P, ID_P, <<>>)>>],
      [trackedEntity |-> ID_T, enrollments |-> <<Enrollment(EN_P, ID_P, <<EV1, EV2>>)>>],
      [trackedEntity |-> ID_T, enrollments |-> <<Enrollment(EN_Q, ID_Q, <<EV3>>)>>],
      [trackedEntity |-> ID_T,
       enrollments |-> <<Enrollment(EN_Q, ID_Q, <<EV3>>), Enrollment(EN_P, ID_P, <<EV1>>)>>] }

\* --------------------------------------------------------------- variables

VARIABLES
    mounted,              \* the component is mounted (the session is live)
    teiId, programId,     \* case id (state, line 154) and program id (prop)
    updateEnrollmentOrgUnit,  \* the build's UPDATE_ENROLLMENT_ORGUNIT (67)
    currentOrgUnitId,     \* the host's currentOrgUnitId prop
    roots,                \* ids of the loaded root org units
    selectedPaths, selectedOuId, selectedOu,
    currentOuId, currentOuName,
    errorMessage, statusMessage, treeError,
    isSubmitting,
    searchText, debouncedSearchText, timer,
    searchResults, searchError, isSearching,
    searchReqs, searchGen,  \* search requests in flight; runs of the search effect
    curReqs, nameReqs, ouReqs,  \* lookups in flight, each with its isActive flag
    attempts              \* activations of handleTransfer

ctxVars == <<teiId, programId, updateEnrollmentOrgUnit>>
selVars == <<selectedPaths, selectedOuId, selectedOu, ouReqs>>
curVars == <<currentOrgUnitId, currentOuId, currentOuName, curReqs, nameReqs>>
searchVars == <<searchText, debouncedSearchText, timer, searchResults, searchError,
                isSearching, searchReqs, searchGen>>
xferVars == <<isSubmitting, statusMessage, attempts>>
vars == <<mounted, ctxVars, roots, treeError, errorMessage,
          selVars, curVars, searchVars, xferVars>>

\* ------------------------------------------------------------------- Init

\* a cleanup that clears no flag
DeactivateNone(reqs) == reqs

\* the cleanups of the effects in flight: isActive = false (222-224, 262-264,
\* 301-303, 383-385)
Deactivate(reqs) == {[r EXCEPT !.isActive = FALSE] : r \in reqs}

IdleAttempt ==
    [pc |-> "idle", c |-> Null, p |-> Null, d |-> Null,
     tei |-> [trackedEntity |-> Null, enrollments |-> Absent], calls |-> <<>>]

\* The state after the first render and its effects, in a build whose
\* UPDATE_ENROLLMENT_ORGUNIT is flag: the current-location
\* fetch is issued when a case id is known and no current location was given
\* (187-225), the name fetch when one was given (227-265), the debounce timer
\* is armed for the empty query (92-100), the roots query is loading (152).
InitBuild(flag) ==
    /\ mounted = TRUE
    /\ updateEnrollmentOrgUnit = flag
    /\ teiId \in {<<>>, ID_T}
    /\ programId \in {<<>>, ID_P}
    /\ currentOrgUnitId \in {<<>>, ID_A}
    /\ roots = <<>>
    /\ selectedPaths = <<>>
    /\ selectedOuId = Null
    /\ selectedOu = NullOu
    /\ currentOuId = currentOrgUnitId
    /\ currentOuName = Null
    /\ errorMessage = Null
    /\ statusMessage = Null
    /\ treeError = Null
    /\ isSubmitting = FALSE
    /\ searchText = <<>>
    /\ debouncedSearchText = <<>>
    /\ timer = <<>>
    /\ searchResults = <<>>
    /\ searchError = Null
    /\ isSearching = FALSE
    /\ searchReqs = {}
    /\ searchGen = 0
    /\ curReqs = IF Truthy(teiId) /\ ~Truthy(currentOuId)
                 THEN {[isActive |-> TRUE]} ELSE {}
    /\ nameReqs = IF Truthy(currentOuId)
                  THEN {[id |-> currentOuId, isActive |-> TRUE]} ELSE {}
    /\ ouReqs = {}
    /\ attempts = [s \in 1..MaxAttempts |-> IdleAttempt]

\* the build of the source, with the flag as line 67 sets it
Init == InitBuild(UPDATE_ENROLLMENT_ORGUNIT)

\* ------------------------------------------------ derived values (398-402)

destinationOuId == IF selectedOuId = Null THEN <<>> ELSE Trim(selectedOuId)

\* the comparison made with the id as entered
isSameOrgUnitUntrimmed ==
    Truthy(currentOuId) /\ Truthy(destinationOuId) /\ currentOuId = selectedOuId

isSameOrgUnit ==
    Truthy(currentOuId) /\ Truthy(destinationOuId) /\ currentOuId = destinationOuId

isTransferEnabled ==
    /\ Truthy(teiId)
    /\ Truthy(programId)
    /\ Truthy(destinationOuId)
    /\ ~isSameOrgUnit
    /\ ~isSubmitting

\* a button that is never disabled
ButtonNeverDisabled == FALSE

\* the Transfer button's disabled prop (689, 718)
ButtonDisabled == ~isTransferEnabled

\* the "Destination org unit unchanged" notice is rendered (524-528)
SameOrgUnitWarningShown == isSameOrgUnit

\* ------------------------------------------- current location (181-265)

\* setCurrentOuId(v) with the render it causes: the current-location effect is
\* cleaned up and, v being non-empty, returns at once; the name effect is
\* cleaned up and fetches the name of v.
SetCurrentOuId(v) ==
    IF v = currentOuId
    THEN UNCHANGED <<currentOuId, currentOuName, curReqs, nameReqs>>
    ELSE /\ currentOuId' = v
         /\ curReqs' = Deactivate(curReqs) \cup
                (IF Truthy(teiId) /\ ~Truthy(v) THEN {[isActive |-> TRUE]} ELSE {})
         /\ nameReqs' = Deactivate(nameReqs) \cup
                (IF Truthy(v) THEN {[id |-> v, isActive |-> TRUE]} ELSE {})
         /\ currentOuName' = IF Truthy(v) THEN currentOuName ELSE Null

\* the host re-renders the plugin with another org unit (181-185)
HostChangesCurrentOrgUnit(v) ==
    /\ mounted
    /\ v # currentOrgUnitId
    /\ Cardinality(nameReqs) < MaxPending
    /\ currentOrgUnitId' = v
    /\ IF Truthy(v) THEN SetCurrentOuId(v)
       ELSE UNCHANGED <<currentOuId, currentOuName, curReqs, nameReqs>>
    /\ UNCHANGED <<mounted, ctxVars, roots, treeError, errorMessage,
                   selVars, searchVars, xferVars>>

\* tracker/trackedEntities/{teiId}?fields=orgUnit answers (194-218)
CurrentOrgUnitReturns(r, failed, orgUnit) ==
    /\ r \in curReqs
    /\ Cardinality(nameReqs) < MaxPending
    /\ IF r.isActive /\ ~failed /\ Truthy(orgUnit)
       THEN /\ currentOuId' = orgUnit
            /\ curReqs' = Deactivate(curReqs \ {r})
            /\ nameReqs' = Deactivate(nameReqs) \cup {[id |-> orgUnit, isActive |-> TRUE]}
            /\ UNCHANGED currentOuName
       ELSE /\ curReqs' = curReqs \ {r}
            /\ UNCHANGED <<currentOuId, currentOuName, nameReqs>>
    /\ UNCHANGED <<mounted, ctxVars, roots, treeError, errorMessage,
                   currentOrgUnitId, selVars, searchVars, xferVars>>

\* organisationUnits/{currentOuId}?fields=id,displayName answers (235-258)
CurrentOrgUnitNameReturns(r, failed, displayName) ==
    /\ r \in nameReqs
    /\ nameReqs' = nameReqs \ {r}
    /\ currentOuName' =
          IF ~r.isActive THEN currentOuName
          ELSE IF failed THEN Null
          ELSE IF Truthy(displayName) THEN displayName ELSE Null
    /\ UNCHANGED <<mounted, ctxVars, roots, treeError, errorMessage,
                   currentOrgUnitId, currentOuId, curReqs, selVars, searchVars, xferVars>>

\* ------------------------------------------ destination lookup (267-304)

\* setSelectedOuId(v) with the render it causes: when the id changed, the
\* effect's cleanup clears the isActive flag of the lookup in flight, and
\* loadOrgUnit either sets selectedOu to null (no id) or fetches the unit.
SetSelectedOuId(v) ==
    IF v = selectedOuId
    THEN UNCHANGED <<selectedOuId, selectedOu, ouReqs>>
    ELSE /\ selectedOuId' = v
         /\ ouReqs' = Deactivate(ouReqs) \cup
                (IF Truthy(v) THEN {[id |-> v, isActive |-> TRUE]} ELSE {})
         /\ selectedOu' = IF Truthy(v) THEN selectedOu ELSE NullOu

\* room for the lookup a selection of v issues
CanSelect(v) ==
    v = selectedOuId \/ ~Truthy(v) \/ Cardinality(ouReqs) < MaxPending

\* the message without the generic fallback
getValidationMessageNoFallback(e) ==
    LET error == Errors[e] IN
    IF ~error.isObject THEN Null
    ELSE IF Truthy(error.responseMessage) THEN error.responseMessage
    ELSE error.message

getValidationMessage(e) ==
    LET error == Errors[e] IN
    IF ~error.isObject THEN MSG_TransferFailed
    ELSE IF Truthy(error.responseMessage) THEN error.responseMessage
    ELSE IF Truthy(error.message) THEN error.message
    ELSE MSG_TransferFailed

\* organisationUnits/{selectedOuId}?fields=id,displayName,path answers with
\* outcome out (276-296); only ids of existing units can be answered with one
DestinationReturns(r, out) ==
    /\ r \in ouReqs
    /\ out = 0 => r.id \in OrgUnitIds
    /\ ouReqs' = ouReqs \ {r}
    /\ selectedOu' = IF r.isActive /\ out = 0 THEN OrgUnitOf(r.id) ELSE selectedOu
    /\ errorMessage' = IF r.isActive /\ out # 0 THEN getValidationMessage(out)
                       ELSE errorMessage
    /\ UNCHANGED <<mounted, ctxVars, roots, treeError,
                   selectedPaths, selectedOuId, curVars, searchVars, xferVars>>

\* ------------------------------------------------- tree and manual entry

\* useDataQuery(rootsQuery) answers (152, 171-179)
RootsLoaded ==
    /\ mounted
    /\ roots = <<>>
    /\ roots' = <<ID_A>>
    /\ UNCHANGED <<mounted, ctxVars, treeError, errorMessage,
                   selVars, curVars, searchVars, xferVars>>

TreeShown == treeError = Null /\ roots # <<>>

\* selected.filter(Boolean), every path kept
LastSelectedKeepsAll(selected) == SelectSeq(selected, LAMBDA s : s # <<>>)

\* selected.filter(Boolean).slice(-1)
LastSelected(selected) ==
    LET kept == SelectSeq(selected, LAMBDA s : s # <<>>)
    IN  IF kept = <<>> THEN <<>> ELSE <<kept[Len(kept)]>>

\* what the tree can emit for a click on the unit id: the unit's path
\* selected, nothing selected (a deselection), or a longer list
TreeSelections(id) ==
    { <<>>, <<PathOf(id)>>, <<PathOf(ID_A), PathOf(ID_B)>>, <<PathOf(id), <<>>>> }

\* OrganisationUnitTree onChange (630-634)
TreeChange(selected, id) ==
    /\ mounted
    /\ TreeShown
    /\ CanSelect(id)
    /\ selectedPaths' = LastSelected(selected)
    /\ SetSelectedOuId(id)
    /\ UNCHANGED <<mounted, ctxVars, roots, treeError, errorMessage,
                   curVars, searchVars, xferVars>>

\* TreeErrorBoundary catches a render error of the tree (123-134, 625)
TreeRenderFails ==
    /\ mounted
    /\ TreeShown
    /\ treeError' = MSG_TreeFailed
    /\ UNCHANGED <<mounted, ctxVars, roots, errorMessage,
                   selVars, curVars, searchVars, xferVars>>

ManualInputs == {<<>>, <<" ">>, <<"A", " ">>, <<" ", "B">>}

\* the manual-entry input's onChange (601-605)
ManualEntry(value) ==
    /\ mounted
    /\ treeError # Null
    /\ value # selectedOuId
    /\ CanSelect(value)
    /\ SetSelectedOuId(value)
    /\ UNCHANGED <<mounted, ctxVars, roots, treeError, errorMessage,
                   selectedPaths, curVars, searchVars, xferVars>>

\* ---------------------------------------------- debounce and search (89-103, 331-386)

\* setSearchText(v) with the render it causes: useDebouncedValue's effect
\* clears the pending timeout and arms one for v
SetSearchText(v) ==
    IF v = searchText
    THEN UNCHANGED <<searchText, timer>>
    ELSE searchText' = v /\ timer' = v

SearchInputs == {<<>>, <<"a">>, <<"a", " ">>, <<"a", "b">>, <<"b", "c">>}

\* the search input's onChange (536-541)
TypeSearch(value) ==
    /\ mounted
    /\ value # searchText
    /\ SetSearchText(value)
    /\ UNCHANGED <<mounted, ctxVars, roots, treeError, errorMessage,
                   selVars, curVars, xferVars, debouncedSearchText, searchResults,
                   searchError, isSearching, searchReqs, searchGen>>

\* the length test on the untrimmed text
BelowMinimumUntrimmed(text) == Len(text) < MIN_SEARCH_LENGTH

\* trimmed.length < MIN_SEARCH_LENGTH (332-333)
BelowMinimum(text) == Len(Trim(text)) < MIN_SEARCH_LENGTH

\* a cleanup that leaves the flag set
SearchCleanupMissing(reqs) == reqs

\* the cleanup of a search effect run (383-385)
SearchCleanup(reqs) == Deactivate(reqs)

\* The timeout fires (93-95): setDebouncedValue(value).  When the debounced
\* value changed, the search effect is cleaned up and runs again (331-386).
DebounceFires ==
    /\ timer # Null
    /\ timer' = Null
    /\ IF timer = debouncedSearchText
       THEN UNCHANGED <<debouncedSearchText, searchResults, searchError,
                        isSearching, searchReqs, searchGen>>
       ELSE /\ searchGen < MaxSettles
            /\ debouncedSearchText' = timer
            /\ searchGen' = searchGen + 1
            /\ searchError' = Null
            /\ IF BelowMinimum(timer)
               THEN /\ searchResults' = <<>>
                    /\ isSearching' = FALSE
                    /\ searchReqs' = SearchCleanup(searchReqs)
               ELSE /\ isSearching' = TRUE
                    /\ searchReqs' = SearchCleanup(searchReqs) \cup
                          {[query |-> Trim(timer), isActive |-> TRUE, gen |-> searchGen + 1]}
                    /\ UNCHANGED searchResults
    /\ UNCHANGED <<mounted, ctxVars, roots, treeError, errorMessage,
                   selVars, curVars, xferVars, searchText>>

OU_A == OrgUnitOf(ID_A)
OU_B == OrgUnitOf(ID_B)

\* what organisationUnits?filter=displayName:ilike:... can answer: the
\* organisationUnits array, or a body without one
SearchAnswers == {<<>>, <<OU_A>>, <<OU_B>>, <<OU_A, OU_B>>, Absent}

\* the search request r is answered (345-378)
SearchReturns(r, out, answer) ==
    /\ r \in searchReqs
    /\ searchReqs' = searchReqs \ {r}
    /\ IF ~r.isActive
       THEN UNCHANGED <<searchResults, searchError, isSearching>>
       ELSE /\ isSearching' = FALSE
            /\ IF out = 0
               THEN /\ searchResults' = IF answer = Absent THEN <<>> ELSE answer
                    /\ UNCHANGED searchError
               ELSE /\ searchError' = MSG_SearchFailed
                    /\ searchResults' = <<>>
    /\ UNCHANGED <<mounted, ctxVars, roots, treeError, errorMessage,
                   selVars, curVars, xferVars, searchText, debouncedSearchText,
                   timer, searchGen>>

\* the results list is rendered (550-552)
ResultsShown ==
    /\ ~BelowMinimum(debouncedSearchText)
    /\ ~isSearching
    /\ Len(searchResults) > 0

\* a pick that leaves the tree's path selection as it was
SearchPickKeepsPaths(i) ==
    /\ mounted
    /\ ResultsShown
    /\ i \in 1..Len(searchResults)
    /\ CanSelect(searchResults[i].id)
    /\ SetSelectedOuId(searchResults[i].id)
    /\ SetSearchText(searchResults[i].displayName)
    /\ searchResults' = <<>>
    /\ UNCHANGED <<mounted, ctxVars, roots, treeError, errorMessage,
                   selectedPaths, curVars, xferVars, debouncedSearchText, searchError,
                   isSearching, searchReqs, searchGen>>

\* a pick that leaves the results list as it was
SearchPickKeepsResults(i) ==
    /\ mounted
    /\ ResultsShown
    /\ i \in 1..Len(searchResults)
    /\ CanSelect(searchResults[i].id)
    /\ SetSelectedOuId(searchResults[i].id)
    /\ selectedPaths' = <<searchResults[i].id>>
    /\ SetSearchText(searchResults[i].displayName)
    /\ UNCHANGED <<mounted, ctxVars, roots, treeError, errorMessage,
                   curVars, xferVars, debouncedSearchText, searchResults, searchError,
                   isSearching, searchReqs, searchGen>>

\* a search result's onClick (566-571)
SearchPick(i) ==
    /\ mounted
    /\ ResultsShown
    /\ i \in 1..Len(searchResults)
    /\ CanSelect(searchResults[i].id)
    /\ SetSelectedOuId(searchResults[i].id)
    /\ selectedPaths' = <<searchResults[i].id>>
    /\ SetSearchText(searchResults[i].displayName)
    /\ searchResults' = <<>>
    /\ UNCHANGED <<mounted, ctxVars, roots, treeError, errorMessage,
                   curVars, xferVars, debouncedSearchText, searchError,
                   isSearching, searchReqs, searchGen>>

\* ------------------------------------------------ handleTransfer (404-508)

\* the message test without the status test
isUnknownParamErrorAnyStatus(e, paramName) ==
    LET message == ToLowerCase(getValidationMessage(e)) IN
    \/ Includes(message, KW_unknownParameter)
    \/ /\ Includes(message, KW_parameter)
       /\ Includes(message, ToLowerCase(paramName))

\* 4xx and a message naming an unknown parameter (105-117)
isUnknownParamError(e, paramName) ==
    LET status == Errors[e].status IN
    IF status = 0 \/ status < 400 \/ status >= 500
    THEN FALSE
    ELSE LET message == ToLowerCase(getValidationMessage(e)) IN
         \/ Includes(message, KW_unknownParameter)
         \/ /\ Includes(message, KW_parameter)
            /\ Includes(message, ToLowerCase(paramName))

NoPayload == <<>>

\* engine.mutate of tracker/ownership/transfer (414-428): params and data
\* carry the same case, program and destination
TransferCall(paramName, a) ==
    [kind |-> "transfer", paramName |-> paramName, c |-> a.c, p |-> a.p, d |-> a.d,
     payload |-> NoPayload, state |-> "pending", err |-> 0]

\* engine.query of tracker/trackedEntities/{teiId} (440-447)
RefetchCall(a) ==
    [kind |-> "refetch", paramName |-> Null, c |-> a.c, p |-> Null, d |-> Null,
     payload |-> NoPayload, state |-> "pending", err |-> 0]

\* engine.mutate of tracker with importStrategy UPDATE (455-472, 488-498)
ImportCall(kind, payload) ==
    [kind |-> kind, paramName |-> Null, c |-> Null, p |-> Null, d |-> Null,
     payload |-> payload, state |-> "pending", err |-> 0]

\* the call in flight gets its outcome
Settle(calls, out) ==
    [calls EXCEPT ![Len(calls)] =
        [@ EXCEPT !.state = IF out = 0 THEN "ok" ELSE "error", !.err = out]]

\* trackedEntity.enrollments?.find(e => e.program === programId) (450-452):
\* the empty sequence, or the first enrollment of the program
FindEnrollment(te, p) ==
    IF te.enrollments = Absent THEN <<>>
    ELSE LET hits == SelectSeq(te.enrollments, LAMBDA en : en.program = p)
         IN  IF hits = <<>> THEN <<>> ELSE <<hits[1]>>

\* the enrollment import's data (458-467)
EnrollmentPayload(a, te, en) ==
    << [enrollment |-> en.enrollment, program |-> a.p,
        trackedEntity |-> IF Truthy(te.trackedEntity) THEN te.trackedEntity ELSE a.c,
        orgUnit |-> a.d] >>

\* the events copied with the location they have
EventsToUpdateKeepsOrgUnit(a, found) ==
    IF found = <<>> THEN <<>>
    ELSE IF found[1].events = Absent THEN <<>>
    ELSE [i \in 1..Len(found[1].events) |->
            LET event == found[1].events[i] IN
            [event |-> event.event, program |-> event.program,
             programStage |-> event.programStage, enrollment |-> found[1].enrollment,
             orgUnit |-> event.orgUnit, status |-> event.status,
             occurredAt |-> event.occurredAt, scheduledAt |-> event.scheduledAt]]

\* eventsToUpdate (475-485)
EventsToUpdate(a, found) ==
    IF found = <<>> THEN <<>>
    ELSE IF found[1].events = Absent THEN <<>>
    ELSE [i \in 1..Len(found[1].events) |->
            LET event == found[1].events[i] IN
            [event |-> event.event, program |-> event.program,
             programStage |-> event.programStage, enrollment |-> found[1].enrollment,
             orgUnit |-> a.d, status |-> event.status,
             occurredAt |-> event.occurredAt, scheduledAt |-> event.scheduledAt]]

InFlight(a) == a.pc \notin {"idle", "resolved", "rejected"}

FreeSlots == {s \in 1..MaxAttempts : ~InFlight(attempts[s])}

FirstFree == CHOOSE s \in FreeSlots : \A o \in FreeSlots : s <= o

\* handleTransfer without its early return
handleTransferUnguarded(slot) ==
    LET a == [IdleAttempt EXCEPT !.c = teiId, !.p = programId, !.d = destinationOuId]
    IN  /\ isSubmitting' = TRUE
        /\ statusMessage' = Null
        /\ errorMessage' = Null
        /\ attempts' = [attempts EXCEPT ![slot] =
               [a EXCEPT !.pc = "awaitPrimary",
                         !.calls = <<TransferCall(KW_trackedEntity, a)>>]]

\* The synchronous part of handleTransfer (405-431), run as activation slot.
handleTransfer(slot) ==
    IF ~Truthy(teiId) \/ ~Truthy(programId) \/ ~Truthy(destinationOuId) \/ isSameOrgUnit
    THEN UNCHANGED <<isSubmitting, statusMessage, errorMessage, attempts>>
    ELSE LET a == [IdleAttempt EXCEPT !.c = teiId, !.p = programId,
                                     !.d = destinationOuId]
         IN  /\ isSubmitting' = TRUE
             /\ statusMessage' = Null
             /\ errorMessage' = Null
             /\ attempts' = [attempts EXCEPT ![slot] =
                    [a EXCEPT !.pc = "awaitPrimary",
                              !.calls = <<TransferCall(KW_trackedEntity, a)>>]]

\* the Transfer button's onClick (686-693, 715-722)
ClickTransfer ==
    /\ mounted
    /\ ~ButtonDisabled
    /\ FreeSlots # {}
    /\ handleTransfer(FirstFree)
    /\ UNCHANGED <<mounted, ctxVars, roots, treeError,
                   selVars, curVars, searchVars>>

\* the catch block without the finally block
FailWithoutFinally(slot, out) ==
    /\ attempts' = [attempts EXCEPT ![slot] =
           [@ EXCEPT !.pc = "resolved", !.calls = Settle(@, out)]]
    /\ errorMessage' = IF mounted THEN getValidationMessage(out) ELSE errorMessage
    /\ UNCHANGED <<isSubmitting, statusMessage>>

\* catch (502-504) and finally (505-507): the activation ends Failed
Fail(slot, out) ==
    /\ attempts' = [attempts EXCEPT ![slot] =
           [@ EXCEPT !.pc = "resolved", !.calls = Settle(@, out)]]
    /\ errorMessage' = IF mounted THEN getValidationMessage(out) ELSE errorMessage
    /\ isSubmitting' = IF mounted THEN FALSE ELSE isSubmitting
    /\ UNCHANGED statusMessage

\* setStatusMessage (501) and finally (505-507): the activation ends Success
Succeed(slot, calls) ==
    /\ attempts' = [attempts EXCEPT ![slot] = [@ EXCEPT !.pc = "resolved", !.calls = calls]]
    /\ statusMessage' = IF mounted THEN MSG_TransferCompleted ELSE statusMessage
    /\ isSubmitting' = IF mounted THEN FALSE ELSE isSubmitting
    /\ UNCHANGED errorMessage

\* issue the next remote call and wait for it
Await(slot, pc, calls, tei) ==
    /\ attempts' = [attempts EXCEPT ![slot] =
           [@ EXCEPT !.pc = pc, !.calls = calls, !.tei = tei]]
    /\ UNCHANGED <<isSubmitting, statusMessage, errorMessage>>

\* the fallback attempt repeating the first parameter name
RetryParamNameRepeated == KW_trackedEntity

\* the parameter name of the fallback attempt (434)
RetryParamName == KW_trackedEntityInstance

\* a cascade step's rejection answered by transferring again
CascadeRejectedRetries(slot, out) ==
    LET a == attempts[slot] IN
    Await(slot, "awaitRetry",
          Append(Settle(a.calls, out), TransferCall(KW_trackedEntity, a)), a.tei)

\* The re-fetch or an import is rejected: the outer catch (502-507).  The
\* inner try (430-438) is over, so no transfer is issued again.
CascadeRejected(slot, out) == Fail(slot, out)

\* a rejection of the primary mutation that is swallowed
PrimaryReturnsSwallowsError(slot, out) ==
    LET a == attempts[slot] IN
    /\ a.pc = "awaitPrimary"
    /\ Await(slot, "awaitRefetch", Append(Settle(a.calls, out), RefetchCall(a)), a.tei)
    /\ UNCHANGED <<mounted, ctxVars, roots, treeError,
                   selVars, curVars, searchVars>>

\* the primary mutation is answered (430-438)
PrimaryReturns(slot, out) ==
    LET a == attempts[slot] IN
    /\ a.pc = "awaitPrimary"
    /\ IF out = 0
       THEN Await(slot, "awaitRefetch", Append(Settle(a.calls, out), RefetchCall(a)), a.tei)
       ELSE IF isUnknownParamError(out, KW_trackedEntity)
       THEN Await(slot, "awaitRetry",
                  Append(Settle(a.calls, out), TransferCall(RetryParamName, a)), a.tei)
       ELSE Fail(slot, out)
    /\ UNCHANGED <<mounted, ctxVars, roots, treeError,
                   selVars, curVars, searchVars>>

\* the fallback mutation is answered (434, 502-507)
RetryReturns(slot, out) ==
    LET a == attempts[slot] IN
    /\ a.pc = "awaitRetry"
    /\ IF out = 0
       THEN Await(slot, "awaitRefetch", Append(Settle(a.calls, out), RefetchCall(a)), a.tei)
       ELSE Fail(slot, out)
    /\ UNCHANGED <<mounted, ctxVars, roots, treeError,
                   selVars, curVars, searchVars>>

\* the event cascade and the end of the try block (475-501)
CascadeEvents(slot, calls, found) ==
    LET a == attempts[slot]
        eventsToUpdate == EventsToUpdate(a, found)
    IN  IF Len(eventsToUpdate) > 0
        THEN Await(slot, "awaitEvents",
                   Append(calls, ImportCall("eventImport", eventsToUpdate)), a.tei)
        ELSE Succeed(slot, calls)

\* the re-fetch followed by the enrollment import whatever the flag says
RefetchReturnsIgnoresFlag(slot, out, te) ==
    LET a == attempts[slot]
        found == FindEnrollment(te, a.p)
    IN
    /\ a.pc = "awaitRefetch"
    /\ IF out # 0
       THEN CascadeRejected(slot, out)
       ELSE IF found # <<>> /\ Truthy(found[1].enrollment)
       THEN Await(slot, "awaitEnrollment",
                  Append(Settle(a.calls, out),
                         ImportCall("enrollmentImport", EnrollmentPayload(a, te, found[1]))),
                  te)
       ELSE CascadeEvents(slot, Settle(a.calls, out), found)
    /\ UNCHANGED <<mounted, ctxVars, roots, treeError,
                   selVars, curVars, searchVars>>

\* the re-fetch is answered with outcome out and tracked entity te (440-473)
RefetchReturns(slot, out, te) ==
    LET a == attempts[slot]
        found == FindEnrollment(te, a.p)
    IN
    /\ a.pc = "awaitRefetch"
    /\ IF out # 0
       THEN CascadeRejected(slot, out)
       ELSE IF updateEnrollmentOrgUnit /\ found # <<>> /\ Truthy(found[1].enrollment)
       THEN Await(slot, "awaitEnrollment",
                  Append(Settle(a.calls, out),
                         ImportCall("enrollmentImport", EnrollmentPayload(a, te, found[1]))),
                  te)
       ELSE CascadeEvents(slot, Settle(a.calls, out), found)
    /\ UNCHANGED <<mounted, ctxVars, roots, treeError,
                   selVars, curVars, searchVars>>

\* an import (enrollment 455-472, events 488-498) is answered
ImportReturns(slot, out) ==
    LET a == attempts[slot] IN
    /\ a.pc \in {"awaitEnrollment", "awaitEvents"}
    /\ IF out # 0
       THEN CascadeRejected(slot, out)
       ELSE IF a.pc = "awaitEnrollment"
       THEN CascadeEvents(slot, Settle(a.calls, out), FindEnrollment(a.tei, a.p))
       ELSE Succeed(slot, Settle(a.calls, out))
    /\ UNCHANGED <<mounted, ctxVars, roots, treeError,
                   selVars, curVars, searchVars>>

\* ------------------------------------------------------------- teardown

\* The host closes the panel (Plugin handleClose): the component unmounts and
\* every effect's cleanup runs (97-99, 222-224, 262-264, 301-303, 383-385).
Unmount ==
    /\ mounted
    /\ mounted' = FALSE
    /\ timer' = Null
    /\ curReqs' = Deactivate(curReqs)
    /\ nameReqs' = Deactivate(nameReqs)
    /\ ouReqs' = Deactivate(ouReqs)
    /\ searchReqs' = SearchCleanup(searchReqs)
    /\ UNCHANGED <<ctxVars, roots, treeError, errorMessage,
                   selectedPaths, selectedOuId, selectedOu,
                   currentOrgUnitId, currentOuId, currentOuName,
                   searchText, debouncedSearchText, searchResults, searchError,
                   isSearching, searchGen, xferVars>>

\* ------------------------------------------------------- specifications

Slots == 1..MaxAttempts

CurrentLocationStep ==
    \/ \E v \in OrgUnitIds \cup {<<>>} : HostChangesCurrentOrgUnit(v)
    \/ \E r \in curReqs, failed \in BOOLEAN, orgUnit \in OrgUnitIds \cup {Null} :
          CurrentOrgUnitReturns(r, failed, orgUnit)
    \/ \E r \in nameReqs, failed \in BOOLEAN, n \in {Null, <<"a","b">>} :
          CurrentOrgUnitNameReturns(r, failed, n)

\* every event the tree can emit: the selection and the clicked unit
TreeEvents ==
    UNION { {<<selected, id>> : selected \in TreeSelections(id)} : id \in OrgUnitIds }

\* selection events, the tree emitting one of the events of tree
SelectionStepOver(tree, manual) ==
    \/ RootsLoaded
    \/ TreeRenderFails
    \/ \E ev \in tree : TreeChange(ev[1], ev[2])
    \/ \E value \in manual : ManualEntry(value)
    \/ \E r \in ouReqs, out \in LookupOutcomes : DestinationReturns(r, out)

SelectionStep == SelectionStepOver(TreeEvents, ManualInputs)

SearchStep ==
    \/ \E value \in SearchInputs : TypeSearch(value)
    \/ DebounceFires
    \/ \E r \in searchReqs, out \in Outcomes, answer \in SearchAnswers :
          SearchReturns(r, out, answer)
    \/ \E i \in 1..2 : SearchPick(i)

\* transfer events, the remote calls answered with one of outs and the
\* re-fetch with one of tes
TransferStepOver(outs, tes) ==
    \/ ClickTransfer
    \/ \E slot \in Slots, out \in outs : PrimaryReturns(slot, out)
    \/ \E slot \in Slots, out \in outs : RetryReturns(slot, out)
    \/ \E slot \in Slots, out \in outs, te \in tes : RefetchReturns(slot, out, te)
    \/ \E slot \in Slots, out \in outs : ImportReturns(slot, out)

TransferStep == TransferStepOver(Outcomes, TrackedEntities)

Next ==
    \/ CurrentLocationStep
    \/ SelectionStep
    \/ SearchStep
    \/ TransferStep
    \/ Unmount

Spec == Init /\ [][Next]_vars

\* The session's components share little state: the search writes the
\* selection only through SearchPick, and the destination lookup shares
\* errorMessage with handleTransfer.  Each component is also checked alone,
\* with every input of its own and a few of the components it meets.

\* the tree emits the clicked unit's path
TreeSelects == {<< <<PathOf(id)>>, id >> : id \in OrgUnitIds}

\* The transfer executor: every outcome of every remote call, under tree
\* selections and destination lookups.
NextTransfer ==
    \/ SelectionStepOver(TreeSelects, {ID_B})
    \/ TransferStep
    \/ Unmount

SpecTransfer == Init /\ [][NextTransfer]_vars

\* Every remote call handleTransfer issues is eventually answered.
CallsReturn ==
    /\ WF_vars(\E slot \in Slots, out \in Outcomes : PrimaryReturns(slot, out))
    /\ WF_vars(\E slot \in Slots, out \in Outcomes : RetryReturns(slot, out))
    /\ WF_vars(\E slot \in Slots, out \in Outcomes, te \in TrackedEntities :
                  RefetchReturns(slot, out, te))
    /\ WF_vars(\E slot \in Slots, out \in Outcomes : ImportReturns(slot, out))

SpecTransferFair == SpecTransfer /\ CallsReturn

\* The lookups: the current location and its name, the host changing the
\* current location, and the destination's display lookup under tree
\* selections.
NextLookup ==
    \/ CurrentLocationStep
    \/ RootsLoaded
    \/ \E ev \in TreeSelects : TreeChange(ev[1], ev[2])
    \/ \E r \in ouReqs, out \in LookupOutcomes : DestinationReturns(r, out)
    \/ Unmount

SpecLookup == Init /\ [][NextLookup]_vars

\* a session with its case, program and current location given, in a build
\* with the enrollment flag as the source sets it or in one with the flag set
InitCascade ==
    /\ \E flag \in BOOLEAN : InitBuild(flag)
    /\ teiId = ID_T
    /\ programId = ID_P
    /\ currentOrgUnitId = ID_A

\* The transfer executor in either build: every outcome of every remote
\* call, for a destination selected in the tree.
NextCascade ==
    \/ RootsLoaded
    \/ \E ev \in TreeSelects : TreeChange(ev[1], ev[2])
    \/ \E r \in ouReqs, out \in {0, 1} : DestinationReturns(r, out)
    \/ TransferStep
    \/ Unmount

SpecCascade == InitCascade /\ [][NextCascade]_vars

\* a resolved call, a rejection that is retried and one that is not
SessionOutcomes == {0, 3, 5}

SessionEntities ==
    { [trackedEntity |-> ID_T, enrollments |-> <<>>],
      [trackedEntity |-> ID_T, enrollments |-> <<Enrollment(EN_P, ID_P, <<EV1>>)>>] }

\* The validator and the selection: every selection event, under transfers
\* that succeed or fail.
NextSession ==
    \/ SelectionStep
    \/ TransferStepOver(SessionOutcomes, SessionEntities)
    \/ Unmount

SpecSession == Init /\ [][NextSession]_vars

NextSearch ==
    \/ SearchStep
    \/ \E r \in ouReqs, out \in LookupOutcomes : DestinationReturns(r, out)
    \/ Unmount

\* the search reads no host context: one session with all of it given
InitSearch ==
    /\ Init
    /\ teiId = ID_T
    /\ programId = ID_P
    /\ currentOrgUnitId = ID_A

SpecSearch == InitSearch /\ [][NextSearch]_vars

\* The search up to a pick: the operator types until a result is picked and
\* gives no input after the pick; the timer and the requests run on.
NextPick ==
    \/ \E value \in SearchInputs : selectedOuId = Null /\ TypeSearch(value)
    \/ DebounceFires
    \/ \E r \in searchReqs, out \in Outcomes, answer \in SearchAnswers :
          SearchReturns(r, out, answer)
    \/ \E i \in 1..2 : selectedOuId = Null /\ SearchPick(i)
    \/ \E r \in ouReqs, out \in LookupOutcomes : DestinationReturns(r, out)
    \/ Unmount

SpecPick == InitSearch /\ [][NextPick]_vars

\* what the tree emits under singleSelection: the clicked unit's path when
\* the click selects it, nothing when the click deselects it
TreeClicks ==
    UNION { {<< <<>>, id >>, << <<PathOf(id)>>, id >>} : id \in OrgUnitIds }

\* The selection reconciler: the tree and the search picks, each with the
\* lookups and the search behind it, the search for two names, answered or
\* failed.
NextReconcile ==
    \/ RootsLoaded
    \/ \E ev \in TreeClicks : TreeChange(ev[1], ev[2])
    \/ \E value \in {OU_A.displayName, OU_B.displayName} : TypeSearch(value)
    \/ DebounceFires
    \/ \E r \in searchReqs, out \in {0, 1}, answer \in {<<OU_B>>, <<OU_A, OU_B>>} :
          SearchReturns(r, out, answer)
    \/ \E i \in 1..2 : SearchPick(i)
    \/ \E r \in ouReqs, out \in LookupOutcomes : DestinationReturns(r, out)
    \/ Unmount

SpecReconcile == InitSearch /\ [][NextReconcile]_vars

\* ------------------------------------------------------------- claims

\* the calls of an activation that are ownership transfers
TransferCalls(calls) == SelectSeq(calls, LAMBDA k : k.kind = "transfer")

\* the activations between setting and clearing the submitting flag
Submitting == {s \in Slots : InFlight(attempts[s])}

\* C1: in every reachable state the Transfer action is enabled exactly when
\* the case id, the program id and the trimmed destination id are non-empty,
\* the trimmed destination id differs from the current-location id, and no
\* submission is in progress.
C1_TransferEnabledIff ==
    isTransferEnabled <=>
        /\ teiId # <<>>
        /\ programId # <<>>
        /\ destinationOuId # <<>>
        /\ destinationOuId # currentOuId
        /\ ~isSubmitting

\* Transfer is enabled with a known current location, after an earlier
\* submission has ended.
C1_Witness ==
    /\ isTransferEnabled
    /\ Truthy(currentOuId)
    /\ selectedOuId # destinationOuId
    /\ \E s \in Slots : attempts[s].pc = "resolved"

\* C2: at most one activation of handleTransfer is in flight at any time;
\* none starts while another is between setting and clearing the flag.
C2_OneAttemptInFlight ==
    /\ Cardinality(Submitting) <= 1
    /\ mounted /\ Submitting # {} => isSubmitting

\* An activation is in flight after an earlier one ended, and the selection
\* has changed since it started.
C2_Witness ==
    /\ mounted
    /\ \E s \in Submitting :
          /\ destinationOuId # attempts[s].d
          /\ Len(attempts[s].calls) >= 2
    /\ isTransferEnabled = FALSE

\* the last call of the activation was rejected
EndedByRejection(a) ==
    a.calls # <<>> /\ a.calls[Len(a.calls)].state = "error"

\* C3: provided every remote call is answered, an activation that set the
\* submitting flag reaches its final step, which clears the flag, whichever
\* step succeeded or failed (a torn-down session has no flag to clear).
C3_SubmittingCleared ==
    \A s \in Slots :
        InFlight(attempts[s]) ~>
            (attempts[s].pc = "resolved" /\ (mounted => ~isSubmitting))

\* An activation ended by a rejected call, with the flag cleared.
C3_Witness ==
    /\ mounted
    /\ ~isSubmitting
    /\ \E s \in Slots :
          /\ attempts[s].pc = "resolved"
          /\ EndedByRejection(attempts[s])
          /\ Len(attempts[s].calls) >= 3

\* the session shows a failed transfer
ShowsFailed == Truthy(errorMessage) /\ statusMessage = Null /\ ~isSubmitting

\* C4: when the primary mutation, issued with trackedEntity, is rejected
\* with a 4xx unknown-parameter error, exactly one further ownership transfer
\* is issued, with trackedEntityInstance and the same case, program and
\* destination, and never a third, whether the retry succeeds or fails.
C4_ExactlyOneRetry ==
    \A s \in Slots :
        LET calls == attempts[s].calls
            transfers == TransferCalls(calls)
        IN  /\ Len(transfers) <= 2
            /\ (calls # <<>> /\ calls[1].state = "error"
                   /\ calls[1].err \in UnknownParameter4xx) =>
                  /\ calls[1].kind = "transfer"
                  /\ calls[1].paramName = KW_trackedEntity
                  /\ Len(transfers) = 2
                  /\ calls[2] = [calls[1] EXCEPT
                                    !.paramName = KW_trackedEntityInstance,
                                    !.state = calls[2].state, !.err = calls[2].err]

\* The retry was issued and rejected, and the activation has ended.
C4_Witness ==
    \E s \in Slots :
        LET calls == attempts[s].calls IN
        /\ attempts[s].pc = "resolved"
        /\ Len(calls) = 2
        /\ calls[1].err \in UnknownParameter4xx
        /\ calls[2].paramName = KW_trackedEntityInstance
        /\ calls[2].state = "error"
        /\ calls[2].err \in UnknownParameter4xx

\* C5: when the primary mutation is rejected with any other error (no
\* status, a status outside 4xx, or a 4xx whose message names no unknown
\* parameter), the activation issues that one call only: no retry, no
\* re-fetch, no import; it ends Failed with an error message.
C5_NoRetryOtherwise ==
    \A s \in Slots :
        LET calls == attempts[s].calls IN
        (calls # <<>> /\ calls[1].state = "error"
            /\ calls[1].err \notin UnknownParameter4xx) =>
              /\ Len(calls) = 1
              /\ attempts[s].pc = "resolved"
              /\ mounted => ShowsFailed

\* The primary mutation was rejected with status 500 and a message naming an
\* unknown parameter; the activation ended Failed after that one call.
C5_Witness ==
    /\ mounted
    /\ ShowsFailed
    /\ \E s \in Slots :
          /\ attempts[s].pc = "resolved"
          /\ Len(attempts[s].calls) = 1
          /\ Errors[attempts[s].calls[1].err].status = 500
          /\ errorMessage = M_UnknownParam

\* C6: once an ownership transfer of the activation has succeeded, no
\* further ownership transfer is issued, every later call is the re-fetch or
\* an import that carries the destination, and a rejection of one of them is
\* the activation's last call and ends it Failed with an error message.
C6_NoTransferAfterCommit ==
    \A s \in Slots :
        LET a == attempts[s]
            calls == a.calls
        IN  \A i \in 1..Len(calls) :
                (calls[i].kind = "transfer" /\ calls[i].state = "ok") =>
                    \A j \in (i + 1)..Len(calls) :
                        /\ calls[j].kind \in {"refetch", "enrollmentImport", "eventImport"}
                        /\ \A k \in 1..Len(calls[j].payload) :
                              calls[j].payload[k].orgUnit = a.d
                        /\ calls[j].state = "error" =>
                              /\ j = Len(calls)
                              /\ a.pc = "resolved"
                              /\ mounted => ShowsFailed

\* The transfer and the re-fetch succeeded and the event import was rejected.
C6_Witness ==
    /\ mounted
    /\ ShowsFailed
    /\ \E s \in Slots :
          LET calls == attempts[s].calls IN
          /\ attempts[s].pc = "resolved"
          /\ Len(calls) = 3
          /\ calls[1].kind = "transfer" /\ calls[1].state = "ok"
          /\ calls[3].kind = "eventImport" /\ calls[3].state = "error"

\* C7: the step that ends an activation sets exactly one outcome.  When its
\* last call succeeded (the transfer, by its first try or its fallback, and
\* every later step), it sets the completion message and leaves the error
\* message alone; when a call was rejected without recovery, it sets a
\* non-empty error message and no completion message.  It clears the
\* submitting flag, and the promise handleTransfer returned is never
\* rejected.
C7_OneTerminalOutcome ==
    [][ \A s \in Slots :
          /\ attempts'[s].pc # "rejected"
          /\ (mounted /\ InFlight(attempts[s]) /\ ~InFlight(attempts'[s])) =>
                /\ attempts'[s].pc = "resolved"
                /\ ~isSubmitting'
                /\ IF EndedByRejection(attempts'[s])
                   THEN /\ Truthy(errorMessage')
                        /\ statusMessage' = Null
                   ELSE /\ statusMessage' = MSG_TransferCompleted
                        /\ errorMessage' = errorMessage ]_vars

\* An activation ended Failed by a rejection that carries no message, and
\* the generic message is shown.
C7_Witness ==
    /\ mounted
    /\ ShowsFailed
    /\ errorMessage = MSG_TransferFailed
    /\ \E s \in Slots :
          /\ attempts[s].pc = "resolved"
          /\ EndedByRejection(attempts[s])
          /\ Errors[attempts[s].calls[Len(attempts[s].calls)].err].message = <<>>

\* C8: while an activation is in flight, the session's destination id is the
\* one the activation started with: no tree selection, search pick or manual
\* entry changes it before the activation ends.
C8_DestinationFixedInFlight ==
    \A s \in Submitting : mounted => destinationOuId = attempts[s].d

\* C9: a search response changes the results or the search error only when
\* it answers the request issued by the latest run of the search effect, the
\* run for the current debounced query; a response to a superseded request
\* changes neither, whenever it arrives.
C9_OnlyLatestRequestWrites ==
    [][ \A r \in searchReqs :
          (/\ searchReqs' = searchReqs \ {r}
           /\ <<searchResults, searchError>>' # <<searchResults, searchError>>) =>
              /\ r.gen = searchGen
              /\ r.query = Trim(debouncedSearchText)
              /\ mounted ]_vars

\* The latest request has been answered and its results are shown while a
\* superseded request is still to be answered.
C9_Witness ==
    /\ mounted
    /\ ~isSearching
    /\ searchResults # <<>>
    /\ \E r \in searchReqs : r.gen < searchGen /\ r.query # Trim(debouncedSearchText)

\* C10: for a debounced query whose trimmed length is below 2 the search
\* results are empty and nothing is being searched, and no request was ever
\* issued for such a query: every request in flight carries at least 2
\* characters.
C10_NoSearchBelowMinimum ==
    /\ \A r \in searchReqs : Len(r.query) >= 2
    /\ Len(Trim(debouncedSearchText)) < 2 =>
          /\ searchResults = <<>>
          /\ mounted => ~isSearching
          /\ \A r \in searchReqs : ~r.isActive

\* The query settled on two characters that trim to one, after a longer
\* query whose request is still to be answered.
C10_Witness ==
    /\ mounted
    /\ debouncedSearchText = <<"a", " ">>
    /\ searchResults = <<>>
    /\ searchReqs # {}

\* the path selection and the lookups belong to the destination id
OneSelection ==
    /\ Len(selectedPaths) <= 1
    /\ selectedOuId = Null => selectedPaths = <<>>
    /\ \A i \in 1..Len(selectedPaths) :
          selectedPaths[i] \in {selectedOuId, PathOf(selectedOuId)}
    /\ \A r \in ouReqs : r.isActive => r.id = selectedOuId

C12_SameOrgUnitBlocks ==
    (Truthy(currentOuId) /\ destinationOuId = currentOuId) =>
        /\ ButtonDisabled
        /\ SameOrgUnitWarningShown
        /\ ~ENABLED (\E slot \in Slots :
                        /\ handleTransfer(slot)
                        /\ <<isSubmitting, statusMessage, errorMessage, attempts>>' #
                              <<isSubmitting, statusMessage, errorMessage, attempts>>)

\* The current location was selected as the destination, entered with a
\* trailing blank, with nothing else blocking the transfer.
C12_Witness ==
    /\ mounted
    /\ Truthy(teiId) /\ Truthy(programId) /\ ~isSubmitting
    /\ Truthy(currentOuId)
    /\ selectedOuId # currentOuId
    /\ destinationOuId = currentOuId
    /\ \E s \in Slots : attempts[s].pc = "resolved"

\* the calls of an activation that import events
EventImports(calls) == SelectSeq(calls, LAMBDA k : k.kind = "eventImport")

\* the enrollments of te for program p that carry events
EnrollmentsWithEvents(te, p) ==
    IF te.enrollments = Absent THEN {}
    ELSE { en \in {te.enrollments[i] : i \in 1..Len(te.enrollments)} :
             en.program = p /\ en.events # Absent /\ en.events # <<>> }

\* the session shows a completed transfer
ShowsCompleted == statusMessage = MSG_TransferCompleted /\ ~isSubmitting

\* C13: when the re-fetch that follows a successful ownership transfer to d
\* answers with a case whose enrollment for program p has events, the step
\* issues the activation's one event import, which carries every event of
\* that enrollment in order, each with its event id, program, stage, status
\* and dates as fetched and its location set to d, and the activation ends
\* Success when that import succeeds; when the enrollment is missing or has
\* no events, no event import is issued and the activation ends Success at
\* once.
C13_EventCascade ==
    [][ \A slot \in Slots :
          LET a == attempts[slot]
              b == attempts'[slot]
              imports == EventImports(b.calls)
          IN  /\ \A te \in TrackedEntities :
                    RefetchReturns(slot, 0, te) =>
                        LET ens == EnrollmentsWithEvents(te, a.p) IN
                        IF ens # {}
                        THEN LET en == CHOOSE e \in ens : TRUE
                                 sent == b.calls[Len(b.calls)]
                             IN  /\ Len(imports) = 1
                                 /\ sent.kind = "eventImport"
                                 /\ b.pc = "awaitEvents"
                                 /\ Len(sent.payload) = Len(en.events)
                                 /\ \A i \in 1..Len(en.events) :
                                       LET was == en.events[i]
                                           now == sent.payload[i]
                                       IN  /\ now.event = was.event
                                           /\ now.program = was.program
                                           /\ now.programStage = was.programStage
                                           /\ now.status = was.status
                                           /\ now.occurredAt = was.occurredAt
                                           /\ now.scheduledAt = was.scheduledAt
                                           /\ now.enrollment = en.enrollment
                                           /\ now.orgUnit = a.d
                        ELSE /\ Len(imports) = 0
                             /\ b.pc = "resolved"
                             /\ mounted => ShowsCompleted'
              /\ (a.pc = "awaitEvents" /\ ImportReturns(slot, 0)) =>
                    /\ Len(imports) = 1
                    /\ b.pc = "resolved"
                    /\ mounted => ShowsCompleted' ]_vars

\* Both events of the enrollment were imported with the destination as
\* their location, and the transfer is shown as completed.
C13_Witness ==
    /\ mounted
    /\ ShowsCompleted
    /\ \E s \in Slots :
          LET calls == attempts[s].calls IN
          /\ attempts[s].pc = "resolved"
          /\ attempts[s].d = ID_B
          /\ Len(EventImports(calls)) = 1
          /\ Len(calls[Len(calls)].payload) = 2
          /\ calls[Len(calls)].state = "ok"
          /\ calls[Len(calls)].payload[2].event = EV2.event
          /\ calls[Len(calls)].payload[2].orgUnit = ID_B

\* what the session shows of a transfer: the error notice, the success
\* notice and the button's loading state
Shown == <<errorMessage, statusMessage, isSubmitting>>

\* what the session shows when the primary transfer was rejected with e and
\* not retried: the "Transfer failed" notice with e's message
PrimaryFailureShown(e) == <<getValidationMessage(e), Null, FALSE>>

\* an ownership transfer of the activation succeeded and a later call was
\* rejected
PartialCascadeFailure(a) ==
    /\ EndedByRejection(a)
    /\ \E i \in 1..Len(a.calls) : a.calls[i].kind = "transfer" /\ a.calls[i].state = "ok"

\* C14: when an activation ends by a rejected re-fetch or import after its
\* ownership transfer succeeded, the session shows something else than it
\* shows after a rejected primary transfer that carried the same error.
C14_PartialFailureDistinct ==
    [][ \A slot \in Slots :
          LET b == attempts'[slot] IN
          (mounted /\ InFlight(attempts[slot]) /\ ~InFlight(b)
               /\ PartialCascadeFailure(b)) =>
              Shown' # PrimaryFailureShown(b.calls[Len(b.calls)].err) ]_vars

\* the place of a call in handleTransfer's sequence
StepOf(call) ==
    CASE call.kind = "transfer" -> 1
      [] call.kind = "refetch" -> 2
      [] call.kind = "enrollmentImport" -> 3
      [] call.kind = "eventImport" -> 4

\* C15: the calls of an activation are issued in the order ownership
\* transfer, its one retry if any, re-fetch, enrollment import, event
\* import, each kind but the transfer at most once; a call is issued only
\* when the one before it has been answered, and answered successfully
\* unless it is the retry of the rejected primary transfer; so every
\* re-fetch and import comes after a successful ownership transfer.
C15_CallsInOrder ==
    \A s \in Slots :
        LET calls == attempts[s].calls IN
        /\ calls # <<>> => calls[1].kind = "transfer"
        /\ \A i \in 1..(Len(calls) - 1) :
              LET retry == i = 1 /\ calls[2].kind = "transfer" IN
              /\ calls[i].state # "pending"
              /\ IF retry
                 THEN calls[1].state = "error"
                 ELSE /\ calls[i].state = "ok"
                      /\ StepOf(calls[i]) < StepOf(calls[i + 1])
        /\ \A j \in 1..Len(calls) :
              calls[j].kind # "transfer" =>
                  \E i \in 1..(j - 1) :
                      calls[i].kind = "transfer" /\ calls[i].state = "ok"

\* The primary transfer was rejected, its retry, the re-fetch and the event
\* import succeeded.
C15_Witness ==
    \E s \in Slots :
        LET calls == attempts[s].calls IN
        /\ attempts[s].pc = "resolved"
        /\ Len(calls) = 4
        /\ calls[1].state = "error"
        /\ calls[2].kind = "transfer"
        /\ calls[3].kind = "refetch"
        /\ calls[4].kind = "eventImport" /\ calls[4].state = "ok"

\* the calls of an activation that import an enrollment
EnrollmentImports(calls) == SelectSeq(calls, LAMBDA k : k.kind = "enrollmentImport")

\* the enrollments of te for program p
EnrollmentsOf(te, p) ==
    IF te.enrollments = Absent THEN {}
    ELSE { en \in {te.enrollments[i] : i \in 1..Len(te.enrollments)} : en.program = p }

\* C16: in a build with the enrollment flag off, as the source sets it, no
\* activation issues an enrollment import, and the re-fetch's answer is
\* followed at once by the import of the events of the enrollment of the
\* program, when it has any.  In a build with the flag on, the re-fetch's
\* answer is followed by one enrollment import exactly when the case has an
\* enrollment of the program; it carries that enrollment with its location
\* set to the destination, and the event import is issued only after it
\* succeeded.
C16_EnrollmentCascade ==
    [][ \A slot \in Slots :
          LET a == attempts[slot]
              b == attempts'[slot]
              enrolls == EnrollmentImports(b.calls)
              events == EventImports(b.calls)
              sent == b.calls[Len(b.calls)]
          IN  /\ Len(enrolls) <= 1
              /\ ~updateEnrollmentOrgUnit => Len(enrolls) = 0
              /\ \A te \in TrackedEntities :
                    RefetchReturns(slot, 0, te) =>
                        LET ens == EnrollmentsOf(te, a.p) IN
                        IF updateEnrollmentOrgUnit /\ ens # {}
                        THEN LET en == CHOOSE e \in ens : TRUE IN
                             /\ Len(enrolls) = 1
                             /\ Len(events) = 0
                             /\ sent.kind = "enrollmentImport"
                             /\ Len(sent.payload) = 1
                             /\ sent.payload[1].enrollment = en.enrollment
                             /\ sent.payload[1].program = a.p
                             /\ sent.payload[1].orgUnit = a.d
                        ELSE /\ Len(enrolls) = 0
                             /\ Len(events) =
                                   IF EnrollmentsWithEvents(te, a.p) # {} THEN 1 ELSE 0
              /\ (a.pc = "awaitEnrollment" /\ ImportReturns(slot, 0)) =>
                    /\ a.calls[Len(a.calls)].kind = "enrollmentImport"
                    /\ Len(events) =
                          IF EnrollmentsWithEvents(a.tei, a.p) # {} THEN 1 ELSE 0
                    /\ Len(events) = 1 => sent.kind = "eventImport" ]_vars

\* In a build with the flag on, the enrollment import and then the event
\* import were issued and succeeded.
C16_Witness ==
    /\ updateEnrollmentOrgUnit
    /\ mounted
    /\ ShowsCompleted
    /\ \E s \in Slots :
          LET calls == attempts[s].calls IN
          /\ attempts[s].pc = "resolved"
          /\ Len(calls) = 4
          /\ calls[3].kind = "enrollmentImport" /\ calls[3].state = "ok"
          /\ calls[3].payload[1].orgUnit = ID_B
          /\ calls[4].kind = "eventImport" /\ calls[4].state = "ok"

\* C17 as stated: a search pick of unit u sets the destination id to u's
\* id, leaves the path selection empty, sets the query to u's display name
\* and empties the search results, in one step.
C17_PickClearsPaths ==
    [][ \A i \in 1..Len(searchResults) :
          SearchPick(i) =>
              /\ selectedOuId' = searchResults[i].id
              /\ selectedPaths' = <<>>
              /\ searchText' = searchResults[i].displayName
              /\ searchResults' = <<>> ]_vars

\* C17, amended: a search pick of unit u sets the destination id to u's id,
\* replaces the path selection by the single entry u's id, sets the query
\* to u's display name and empties the search results, in one step.
C17_PickReplacesPaths ==
    [][ \A i \in 1..Len(searchResults) :
          SearchPick(i) =>
              /\ selectedOuId' = searchResults[i].id
              /\ selectedPaths' = <<searchResults[i].id>>
              /\ searchText' = searchResults[i].displayName
              /\ searchResults' = <<>> ]_vars

\* The second of two results was picked: its id is the destination and the
\* one entry of the path selection, its name is the query, not yet settled,
\* and the results are gone.
C17_Witness ==
    /\ mounted
    /\ selectedOuId = ID_B
    /\ selectedPaths = <<ID_B>>
    /\ searchText = OU_B.displayName
    /\ debouncedSearchText = OU_A.displayName
    /\ timer = OU_B.displayName
    /\ searchResults = <<>>
    /\ \E r \in ouReqs : r.id = ID_B /\ r.isActive

LiveLookupsCurrent ==
    /\ \A r \in curReqs : r.isActive => mounted /\ Truthy(teiId) /\ ~Truthy(currentOuId)
    /\ \A r \in nameReqs : r.isActive => mounted /\ r.id = currentOuId
    /\ \A r \in ouReqs : r.isActive => mounted /\ r.id = selectedOuId
    /\ \A reqs \in {nameReqs, ouReqs} :
          Cardinality({r \in reqs : r.isActive}) <= 1

\* C19: the answer to a current-location fetch, a name fetch or a
\* destination fetch, success or failure, changes the state it writes
\* (the current-location id, its name, the displayed unit and the error
\* message) only when the session is live and the fetch is the one issued
\* for the identifier that is current at that moment; an answer to a fetch
\* whose identifier was replaced since, or that arrives after teardown,
\* changes nothing.
C19_StaleLookupsWriteNothing ==
    [][ /\ LiveLookupsCurrent'
        /\ \A r \in curReqs, failed \in BOOLEAN, orgUnit \in OrgUnitIds \cup {Null} :
              (CurrentOrgUnitReturns(r, failed, orgUnit)
                  /\ <<currentOuId, currentOuName>>' # <<currentOuId, currentOuName>>) =>
                  mounted /\ r.isActive /\ ~Truthy(currentOuId)
        /\ \A r \in nameReqs, failed \in BOOLEAN, n \in {Null, <<"a", "b">>} :
              (CurrentOrgUnitNameReturns(r, failed, n) /\ currentOuName' # currentOuName) =>
                  mounted /\ r.isActive /\ r.id = currentOuId
        /\ \A r \in ouReqs, out \in LookupOutcomes :
              (DestinationReturns(r, out)
                  /\ <<selectedOu, errorMessage>>' # <<selectedOu, errorMessage>>) =>
                  mounted /\ r.isActive /\ r.id = selectedOuId ]_vars

\* The current location was fetched and named, and the destination B is
\* displayed while the fetch for the earlier destination A is unanswered.
C19_Witness ==
    /\ mounted
    /\ currentOrgUnitId = <<>>
    /\ currentOuId = ID_A
    /\ currentOuName = OU_A.displayName
    /\ selectedOuId = ID_B
    /\ selectedOu = OU_B
    /\ \E r \in ouReqs : r.id = ID_A /\ ~r.isActive

\* C20: in every reachable state the completion message and the error
\* message are not both set, however a transfer and the answers to the
\* destination lookups interleave.
C20_StatusOrErrorNotBoth ==
    ~(Truthy(statusMessage) /\ Truthy(errorMessage))

\* C21: in a live session with no destination lookup in flight, the unit
\* displayed as selected is none when the trimmed destination id is empty,
\* and otherwise the unit of that id, also when the last lookup failed.
C21_DisplayedUnitIsDestination ==
    (mounted /\ ouReqs = {}) =>
        IF destinationOuId = <<>>
        THEN selectedOu = NullOu
        ELSE selectedOu.id = destinationOuId

\* C22: once a result has been picked and while the operator gives no
\* further input, no step issues a search request and the search results
\* stay empty: the debounce timer the pick armed and the answers still to
\* come open the list no more.
C22_ListStaysClosed ==
    [][ (mounted /\ selectedOuId # Null) =>
            /\ searchResults' = <<>>
            /\ \A r \in searchReqs' : \E q \in searchReqs : q.gen = r.gen ]_vars

====
